---- MODULE Spec2Model ----
(***************************************************************************)
(* Successive convexification driver (src/src/main.cpp): the augmented     *)
(* sensitivity ODE DiscretizationODE::operator(), the construction of the  *)
(* conic subproblem and the outer loop of main().                          *)
(*                                                                         *)
(* The model instantiates the program with Model::n_states = 1 and         *)
(* Model::n_inputs = 1, so every Eigen matrix is a scalar and the          *)
(* augmented state V has n_V_states = 3 + 1 + 2 = 6 columns.  Doubles are  *)
(* exact rationals <<numerator, denominator>>; a zero denominator stands   *)
(* for the non-finite doubles (inf, -inf, NaN) that Eigen's inverse() of a *)
(* singular matrix produces.  The adaptive stepper of line 247 is a        *)
(* fixed-step explicit scheme with a step count chosen per interval.       *)
(***************************************************************************)
EXTENDS Integers, Sequences, FiniteSets, TLC

(* ---------------------------------------------------------------------- *)
(* Bounds and program constants                                           *)
(* ---------------------------------------------------------------------- *)
K == 3

MaxSteps == 2

iterations == 10

n_V_states == 6

(* ---------------------------------------------------------------------- *)
(* double arithmetic                                                      *)
(* ---------------------------------------------------------------------- *)
NonFinite == <<1, 0>>

Abs(n) == IF n < 0 THEN -n ELSE n

\* Operators bind the value of an operand (w \in {operand}) before using it
\* more than once, so that it is computed once.
RECURSIVE GCD(_, _)
GCD(a, b) ==
  IF b = 0 THEN a
  ELSE CHOOSE g \in { GCD(w[1], w[2]) : w \in {<<b, a % b>>} } : TRUE

Finite(p) == p[2] # 0

\* lowest terms with a positive denominator
NormV(p) ==
  IF p[2] = 0 THEN NonFinite
  ELSE IF p[1] = 0 THEN <<0, 1>>
  ELSE CHOOSE r \in { <<(w[2] * p[1]) \div w[1], (w[2] * p[2]) \div w[1]>> :
                       w \in {<<GCD(Abs(p[1]), Abs(p[2])), IF p[2] < 0 THEN -1 ELSE 1>>} } : TRUE

Norm(p) == CHOOSE r \in { NormV(w) : w \in {p} } : TRUE

R(n) == <<n, 1>>

Half == <<1, 2>>

\* the operations on two evaluated operands
AddV(p, q) ==
  IF Finite(p) /\ Finite(q) THEN Norm(<<p[1] * q[2] + q[1] * p[2], p[2] * q[2]>>)
  ELSE NonFinite

MulV(p, q) ==
  IF Finite(p) /\ Finite(q) THEN Norm(<<p[1] * q[1], p[2] * q[2]>>)
  ELSE NonFinite

DivV(p, q) ==
  IF Finite(p) /\ Finite(q) /\ q[1] # 0 THEN Norm(<<p[1] * q[2], p[2] * q[1]>>)
  ELSE NonFinite

\* each operation evaluates its operands once and then combines the values
RAdd(p, q) == CHOOSE r \in { AddV(w[1], w[2]) : w \in {<<p, q>>} } : TRUE

RNeg(p) == CHOOSE r \in { IF Finite(w) THEN <<-w[1], w[2]>> ELSE NonFinite : w \in {p} } : TRUE

RSub(p, q) == RAdd(p, RNeg(q))

RMul(p, q) == CHOOSE r \in { MulV(w[1], w[2]) : w \in {<<p, q>>} } : TRUE

RDiv(p, q) == CHOOSE r \in { DivV(w[1], w[2]) : w \in {<<p, q>>} } : TRUE

\* comparisons with a non-finite operand are false, as with NaN
RLeq(p, q) ==
  \E w \in {<<p, q>>} :
    Finite(w[1]) /\ Finite(w[2]) /\ w[1][1] * w[2][2] <= w[2][1] * w[1][2]

(* ---------------------------------------------------------------------- *)
(* State                                                                  *)
(* ---------------------------------------------------------------------- *)
VARIABLES
  pc,         \* phase of main(): Initializing .. Terminated
  lpc,        \* position inside the body of the interval loop (lines 240-266)
  it,         \* outer loop counter (line 234)
  k,          \* interval loop counter (line 240)
  model,      \* the dynamics collaborator (Model model, line 80)
  X, U,       \* reference trajectory (lines 93-94)
  sigma,      \* reference total time (line 104)
  A_bar, B_bar, C_bar, Sigma_bar, z_bar,   \* lines 107-111
  V,          \* augmented state of the interval being integrated (line 241)
  disc,       \* the DiscretizationODE object of line 246
  nsteps, j,  \* steps the stepper takes over [0, dt] and steps taken so far
  dVdt,       \* last derivative written by DiscretizationODE::operator()
  sol,        \* solution vector held by the solver
  status,     \* value returned by the last solve_problem() call
  params,     \* parameter values the solver dereferenced in solve_problem()
  cone,       \* whether the trust-region cone constraint held at sol
  printed,    \* last trajectory written to cout (lines 284-300)
  linIt,      \* linIt[i]: outer iteration that last wrote the tuple of interval i
  singular,   \* intervals whose integration inverted a singular Phi_A_xi
  passes,     \* completed passes of the interval loop
  solves      \* completed solve_problem() calls

vars == <<pc, lpc, it, k, model, X, U, sigma, A_bar, B_bar, C_bar, Sigma_bar,
          z_bar, V, disc, nsteps, j, dVdt, sol, status, params, cone, printed,
          linIt, singular, passes, solves>>

Nodes == 0 .. (K - 1)

Intervals == 0 .. (K - 2)

\* const double dt = 1 / double(K-1)
dt == <<1, K - 1>>

(* ---------------------------------------------------------------------- *)
(* Dynamics collaborator: ode(x,u) = a*x + b*u + c with its Jacobians     *)
(* ---------------------------------------------------------------------- *)
StaticModel == [a |-> R(0), b |-> R(0), c |-> R(0)]

\* state Jacobian for which two equal steps over [0, dt] at sigma = 1 drive
\* the transition matrix to zero
StiffA == R(-2 * (K - 1))

Models ==
  { StaticModel,
    [a |-> R(1), b |-> R(1), c |-> R(1)],
    [a |-> StiffA, b |-> R(1), c |-> R(0)] }

ode(m, x, u) == RAdd(RAdd(RMul(m.a, x), RMul(m.b, u)), m.c)

state_jacobian(m, x, u) == m.a

control_jacobian(m, x, u) == m.b

IsStatic(m) == m.a = R(0) /\ m.b = R(0) /\ m.c = R(0)

\* trajectories the collaborators hand over: the initial guess of
\* model.initialize / total_time_guess and the solution vector of the solver
Flat == [i \in Nodes |-> R(0)]

Ramp == [i \in Nodes |-> R(i)]

Guesses ==
  { [X |-> Flat, U |-> Flat, sigma |-> R(1)],
    [X |-> Ramp, U |-> Flat, sigma |-> R(1)],
    [X |-> Ramp, U |-> Ramp, sigma |-> R(2)] }

DeltaVals == { R(0), R(1) }

(* ---------------------------------------------------------------------- *)
(* DiscretizationODE::operator()                                          *)
(* ---------------------------------------------------------------------- *)
ZeroV == [c \in 0 .. (n_V_states - 1) |-> R(0)]

\* t / dt
alpha(o, t) == RDiv(t, o.dt)

\* 1. - alpha
beta(o, t) == RSub(R(1), alpha(o, t))

\* first-order-hold control  u_t + t / dt * (u_t1 - u_t)
u_of(o, t) == RAdd(o.u_t, RMul(RDiv(t, o.dt), RSub(o.u_t1, o.u_t)))

\* Phi_A_xi.inverse(): a singular matrix yields non-finite entries
Inverse(Phi) == RDiv(R(1), Phi)

\* the right-hand side on evaluated x, u, alpha, beta, Phi_A_xi and its inverse
ODECols(m, o, w) ==
  LET x       == w[1]
      u       == w[2]
      Phi     == w[5]
      PhiInv  == w[6]
  IN  CHOOSE d \in
        { [c \in 0 .. (n_V_states - 1) |->
            CASE c = 0 -> RMul(o.sigma, y[3])
              [] c = 1 -> RMul(y[1], Phi)
              [] c = 2 -> RMul(RMul(PhiInv, y[2]), w[3])
              [] c = 3 -> RMul(RMul(PhiInv, y[2]), w[4])
              [] c = 4 -> RMul(PhiInv, y[3])
              [] OTHER -> RMul(PhiInv, RSub(RMul(RNeg(y[1]), x), RMul(y[2], u)))] :
          \* A_bar, B_bar, f
          y \in { << RMul(o.sigma, state_jacobian(m, x, u)),
                     RMul(o.sigma, control_jacobian(m, x, u)),
                     ode(m, x, u) >> } } : TRUE

ODE(m, o, v, t) ==
  CHOOSE d \in
    { ODECols(m, o, w) :
        w \in { << v[0], u_of(o, t), alpha(o, t), beta(o, t), v[1], Inverse(v[1]) >> } } : TRUE

\* time reached after s of n equal steps over [0, dt]
TimeAt(s, n) == RMul(R(s), RDiv(dt, R(n)))

\* variant: the transition matrix block is not set to the identity
InitV_noIdentity(x) == [ZeroV EXCEPT ![0] = x]

\* V.setZero(); V.col(0) = X.col(k); V.block(0,1).setIdentity()
InitV(x) == [ZeroV EXCEPT ![0] = x, ![1] = R(1)]

\* one step of the stepper: V += h * dVdt
StepV(v, d, n) == [c \in 0 .. (n_V_states - 1) |-> RAdd(v[c], RMul(RDiv(dt, R(n)), d[c]))]

(* ---------------------------------------------------------------------- *)
(* Solver setup (lines 118-220): affine expressions over solver variables *)
(* ---------------------------------------------------------------------- *)
Term(coef, name, i) == [c |-> coef, v |-> name, i |-> i]

\* value of solver variable name{i} at the point pt
Val(pt, name, i) ==
  CASE name = "X"     -> pt.X[i]
    [] name = "U"     -> pt.U[i]
    [] name = "nu"    -> pt.nu[i]
    [] name = "sigma" -> pt.sigma
    [] OTHER          -> pt.Delta_sigma

\* sum of the terms n .. Len(terms) of an expression at the point pt
RECURSIVE SumTerms(_, _, _)
SumTerms(terms, pt, n) ==
  IF n > Len(terms) THEN R(0)
  ELSE RAdd(RMul(terms[n].c, Val(pt, terms[n].v, terms[n].i)),
            SumTerms(terms, pt, n + 1))

Eval(e, pt) ==
  CHOOSE r \in { RAdd(SumTerms(w.terms, pt, 1), w.const) : w \in {e} } : TRUE

\* total coefficient of name{i} in the terms n .. Len(terms)
RECURSIVE Coef(_, _, _, _)
Coef(terms, name, i, n) ==
  IF n > Len(terms) THEN R(0)
  ELSE RAdd(IF terms[n].v = name /\ terms[n].i = i THEN terms[n].c ELSE R(0),
            Coef(terms, name, i, n + 1))

\* callbacks of lines 198-201, evaluated on the sigma they capture by reference
sigma_fn1(s) == RNeg(s)

sigma_fn2(s) == RAdd(Half, RMul(Half, RMul(s, s)))

sigma_fn3(s) == s

\* variant: sign slip in the constant of the cone's right-hand side
sigma_fn4_plus(s) == RAdd(Half, RMul(Half, RMul(s, s)))

sigma_fn4(s) == RSub(Half, RMul(Half, RMul(s, s)))

\* the values behind the Parameter pointers and callbacks at the time the
\* solver dereferences them
ReadParameters ==
  [A |-> A_bar, B |-> B_bar, C |-> C_bar, Sigma |-> Sigma_bar, z |-> z_bar,
   fn1 |-> sigma_fn1(sigma), fn2 |-> sigma_fn2(sigma),
   fn3 |-> sigma_fn3(sigma), fn4 |-> sigma_fn4(sigma)]

\* variant: B multiplies the end control and C the start control
DynamicsEq_swapped(P, kk) ==
  [terms |-> << Term(R(-1), "X", kk + 1),
                Term(P.A[kk], "X", kk),
                Term(P.B[kk], "U", kk + 1),
                Term(P.C[kk], "U", kk),
                Term(P.Sigma[kk], "sigma", 0),
                Term(R(1), "nu", kk) >>,
   const |-> P.z[kk]]

\* -I x(k+1) + A x(k) + B u(k) + C u(k+1) + Sigma sigma + z + nu == 0
DynamicsEq(P, kk) ==
  [terms |-> << Term(R(-1), "X", kk + 1),
                Term(P.A[kk], "X", kk),
                Term(P.B[kk], "U", kk),
                Term(P.C[kk], "U", kk + 1),
                Term(P.Sigma[kk], "sigma", 0),
                Term(R(1), "nu", kk) >>,
   const |-> P.z[kk]]

\* norm2([fn1*sigma - 0.5*Delta_sigma + fn2, sigma]) <= fn3*sigma + 0.5*Delta_sigma + fn4
TrustRegionCone(P) ==
  [lhs |-> << [terms |-> << Term(P.fn1, "sigma", 0), Term(RNeg(Half), "Delta_sigma", 0) >>,
               const |-> P.fn2],
              [terms |-> << Term(R(1), "sigma", 0) >>, const |-> R(0)] >>,
   rhs |-> [terms |-> << Term(P.fn3, "sigma", 0), Term(Half, "Delta_sigma", 0) >>,
            const |-> P.fn4]]

\* norm2(<<a, b>>) <= r
Norm2Leq(a, b, r) ==
  \E w \in {<<a, b, r>>} :
    /\ RLeq(R(0), w[3])
    /\ RLeq(RAdd(RMul(w[1], w[1]), RMul(w[2], w[2])), RMul(w[3], w[3]))

ConeHolds(cn, pt) ==
  \E w \in {cn} : Norm2Leq(Eval(w.lhs[1], pt), Eval(w.lhs[2], pt), Eval(w.rhs, pt))

\* the value of name{i} that makes the equality e == 0 hold at pt
SolveFor(e, name, i, pt) ==
  CHOOSE r \in { RDiv(RNeg(Eval(w, pt)), Coef(w.terms, name, i, 1)) : w \in {e} } : TRUE

Feasible(P, pt) ==
  /\ \A i \in Intervals : Eval(DynamicsEq(P, i), pt) = R(0)
  /\ ConeHolds(TrustRegionCone(P), pt)

Statuses == {"success", "infeasible", "numerical_error"}

ZeroNodes == [i \in Nodes |-> R(0)]

ZeroIntervals == [i \in Intervals |-> R(0)]

ZeroPoint ==
  [X |-> ZeroNodes, U |-> ZeroNodes, nu |-> ZeroIntervals,
   sigma |-> R(0), Delta_sigma |-> R(0)]

NoParams ==
  [A |-> ZeroIntervals, B |-> ZeroIntervals, C |-> ZeroIntervals,
   Sigma |-> ZeroIntervals, z |-> ZeroIntervals,
   fn1 |-> R(0), fn2 |-> R(0), fn3 |-> R(0), fn4 |-> R(0)]

NoOutput == [it |-> 0, X |-> ZeroNodes, U |-> ZeroNodes, sigma |-> R(0)]

NoDisc == [u_t |-> R(0), u_t1 |-> R(0), sigma |-> R(0), dt |-> dt]

(* ---------------------------------------------------------------------- *)
(* main()                                                                 *)
(* ---------------------------------------------------------------------- *)
\* contents of storage that has not been written yet
Garbage == { R(0), NonFinite }

Init ==
  /\ pc = "Initializing"
  /\ lpc = "idle"
  /\ it = 0
  /\ k = 0
  /\ model \in Models
  /\ \E g \in Garbage :
       /\ X = [i \in Nodes |-> g]
       /\ U = [i \in Nodes |-> g]
       /\ A_bar = [i \in Intervals |-> g]
       /\ B_bar = [i \in Intervals |-> g]
       /\ C_bar = [i \in Intervals |-> g]
       /\ Sigma_bar = [i \in Intervals |-> g]
       /\ z_bar = [i \in Intervals |-> g]
  /\ sigma = R(0)
  /\ V = ZeroV
  /\ disc = NoDisc
  /\ nsteps = 0
  /\ j = 0
  /\ dVdt = ZeroV
  /\ sol = ZeroPoint
  /\ status = "none"
  /\ params = NoParams
  /\ cone = FALSE
  /\ printed = NoOutput
  /\ linIt = [i \in Intervals |-> 0]
  /\ singular = {}
  /\ passes = 0
  /\ solves = 0

\* variant: the outer loop tests it < iterations
LoopTest_short(n) == IF n < iterations THEN "Linearizing" ELSE "Terminated"

\* for(size_t it = 1; it < iterations + 1; it++): where control goes when the
\* loop condition is tested with counter value n
LoopTest(n) == IF n < iterations + 1 THEN "Linearizing" ELSE "Terminated"

\* lines 97-104 (initial guess) up to the first test of the outer loop
Initialize ==
  /\ pc = "Initializing"
  /\ \E g \in Guesses :
       /\ X' = g.X
       /\ U' = g.U
       /\ sigma' = g.sigma
  /\ it' = 1
  /\ pc' = LoopTest(1)
  /\ lpc' = IF LoopTest(1) = "Linearizing" THEN "begin" ELSE "idle"
  /\ k' = 0
  /\ UNCHANGED <<model, A_bar, B_bar, C_bar, Sigma_bar, z_bar, V, disc, nsteps,
                 j, dVdt, sol, status, params, cone, printed, linIt, singular,
                 passes, solves>>

\* variant: the ODE object is built with U.col(k) for both controls
BeginInterval_sameControl ==
  /\ pc = "Linearizing"
  /\ lpc = "begin"
  /\ V' = InitV(X[k])
  /\ disc' = [u_t |-> U[k], u_t1 |-> U[k], sigma |-> sigma, dt |-> dt]
  /\ nsteps' \in 1 .. MaxSteps
  /\ j' = 0
  /\ singular' = singular \ {k}
  /\ lpc' = "rhs"
  /\ UNCHANGED <<pc, it, k, model, X, U, sigma, A_bar, B_bar, C_bar, Sigma_bar,
                 z_bar, dVdt, sol, status, params, cone, printed, linIt,
                 passes, solves>>

\* lines 241-246: fresh augmented state and ODE object for interval k
BeginInterval ==
  /\ pc = "Linearizing"
  /\ lpc = "begin"
  /\ V' = InitV(X[k])
  /\ disc' = [u_t |-> U[k], u_t1 |-> U[k + 1], sigma |-> sigma, dt |-> dt]
  /\ nsteps' \in 1 .. MaxSteps
  /\ j' = 0
  /\ singular' = singular \ {k}
  /\ lpc' = "rhs"
  /\ UNCHANGED <<pc, it, k, model, X, U, sigma, A_bar, B_bar, C_bar, Sigma_bar,
                 z_bar, dVdt, sol, status, params, cone, printed, linIt,
                 passes, solves>>

\* line 247: the stepper calls DiscretizationODE::operator() (lines 51-76)
EvalRHS ==
  /\ pc = "Linearizing"
  /\ lpc = "rhs"
  /\ dVdt' = ODE(model, disc, V, TimeAt(j, nsteps))
  /\ singular' = IF V[1] = R(0) THEN singular \cup {k} ELSE singular
  /\ lpc' = "advance"
  /\ UNCHANGED <<pc, it, k, model, X, U, sigma, A_bar, B_bar, C_bar, Sigma_bar,
                 z_bar, V, disc, nsteps, j, sol, status, params, cone, printed,
                 linIt, passes, solves>>

\* line 247: the stepper advances V by one step
Advance ==
  /\ pc = "Linearizing"
  /\ lpc = "advance"
  /\ V' = StepV(V, dVdt, nsteps)
  /\ j' = j + 1
  /\ lpc' = IF j + 1 < nsteps THEN "rhs" ELSE "extract"
  /\ UNCHANGED <<pc, it, k, model, X, U, sigma, A_bar, B_bar, C_bar, Sigma_bar,
                 z_bar, disc, nsteps, dVdt, sol, status, params, cone, printed,
                 linIt, singular, passes, solves>>

\* variant: the interval loop stops one interval early
LastInterval_early(kk) == ~(kk + 1 < K - 2)

\* the interval loop ends when its counter reaches K-1 (line 240)
LastInterval(kk) == ~(kk + 1 < K - 1)

\* lines 249-254 and the increment and test of the interval loop
ExtractInterval ==
  /\ pc = "Linearizing"
  /\ lpc = "extract"
  /\ A_bar' = [A_bar EXCEPT ![k] = V[1]]
  /\ B_bar' = [B_bar EXCEPT ![k] = RMul(V[1], V[2])]
  /\ C_bar' = [C_bar EXCEPT ![k] = RMul(V[1], V[3])]
  /\ Sigma_bar' = [Sigma_bar EXCEPT ![k] = RMul(V[1], V[4])]
  /\ z_bar' = [z_bar EXCEPT ![k] = RMul(V[1], V[5])]
  /\ linIt' = [linIt EXCEPT ![k] = it]
  /\ k' = k + 1
  /\ V' = ZeroV
  /\ dVdt' = ZeroV
  /\ disc' = NoDisc
  /\ nsteps' = 0
  /\ j' = 0
  /\ IF LastInterval(k)
       THEN pc' = "Solving" /\ lpc' = "idle" /\ passes' = passes + 1
       ELSE pc' = "Linearizing" /\ lpc' = "begin" /\ passes' = passes
  /\ UNCHANGED <<it, model, X, U, sigma, sol, status, params, cone, printed,
                 singular, solves>>

\* line 272: solver.solve_problem()
Solve ==
  /\ pc = "Solving"
  /\ \E P \in {ReadParameters} :
       \E st \in Statuses :
         /\ status' = st
         /\ \E g \in Guesses, D \in DeltaVals :
              \E base \in {[X |-> g.X, U |-> g.U, nu |-> ZeroIntervals,
                            sigma |-> g.sigma, Delta_sigma |-> D]} :
                \E pt \in {IF st = "success"
                             THEN [base EXCEPT !.nu =
                                     [i \in Intervals |->
                                        SolveFor(DynamicsEq(P, i), "nu", i, base)]]
                             ELSE base} :
                  /\ sol' = pt
                  /\ st = "success" => Feasible(P, pt)
                  /\ params' = P
                  /\ cone' = ConeHolds(TrustRegionCone(P), pt)
  /\ solves' = solves + 1
  /\ pc' = "Updating"
  /\ UNCHANGED <<lpc, it, k, model, X, U, sigma, A_bar, B_bar, C_bar, Sigma_bar,
                 z_bar, V, disc, nsteps, j, dVdt, printed, linIt, singular,
                 passes>>

\* variant: the candidate is adopted and printed only after a successful solve
Update_ifSuccess ==
  /\ pc = "Updating"
  /\ X' = IF status = "success" THEN sol.X ELSE X
  /\ U' = IF status = "success" THEN sol.U ELSE U
  /\ sigma' = IF status = "success" THEN sol.sigma ELSE sigma
  /\ printed' = IF status = "success"
                  THEN [it |-> it, X |-> sol.X, U |-> sol.U, sigma |-> sol.sigma]
                  ELSE printed
  /\ it' = it + 1
  /\ pc' = LoopTest(it + 1)
  /\ lpc' = IF LoopTest(it + 1) = "Linearizing" THEN "begin" ELSE "idle"
  /\ k' = 0
  /\ status' = "none"
  /\ params' = NoParams
  /\ cone' = FALSE
  /\ UNCHANGED <<model, A_bar, B_bar, C_bar, Sigma_bar, z_bar, V, disc, nsteps,
                 j, dVdt, linIt, singular, passes, solves>>
  /\ sol' = [sol EXCEPT !.nu = ZeroIntervals, !.Delta_sigma = R(0)]

\* lines 275-300 (read the solution, print it) and the increment and test of
\* the outer loop.  Nothing reads the virtual control or Delta_sigma of this
\* solve after line 300, so the model drops these dead values here.
Update ==
  /\ pc = "Updating"
  /\ X' = sol.X
  /\ U' = sol.U
  /\ sigma' = sol.sigma
  /\ printed' = [it |-> it, X |-> sol.X, U |-> sol.U, sigma |-> sol.sigma]
  /\ it' = it + 1
  /\ pc' = LoopTest(it + 1)
  /\ lpc' = IF LoopTest(it + 1) = "Linearizing" THEN "begin" ELSE "idle"
  /\ k' = 0
  /\ status' = "none"
  /\ params' = NoParams
  /\ cone' = FALSE
  /\ UNCHANGED <<model, A_bar, B_bar, C_bar, Sigma_bar, z_bar, V, disc, nsteps,
                 j, dVdt, linIt, singular, passes, solves>>
  /\ sol' = [sol EXCEPT !.nu = ZeroIntervals, !.Delta_sigma = R(0)]

Next ==
  \/ Initialize
  \/ BeginInterval
  \/ EvalRHS
  \/ Advance
  \/ ExtractInterval
  \/ Solve
  \/ Update

Spec == Init /\ [][Next]_vars

\* main() is sequential code and solve_problem() is assumed to return
FairSpec == Spec /\ WF_vars(Next)

(* ---------------------------------------------------------------------- *)
(* The trust-region cone on its own: the solver evaluates the constraint  *)
(* of lines 203-209 at a trial point (sigma, Delta_sigma) for a reference *)
(* total time sigma0 held in the variable sigma                           *)
(* ---------------------------------------------------------------------- *)
ConeRange == 4

ConeVals == { Norm(<<n, 2>>) : n \in (-ConeRange) .. ConeRange }

ConeDeltas == { Norm(<<n, 2>>) : n \in (-2) .. (2 * ConeRange) }

InitCone ==
  /\ pc = "ConeProbe"
  /\ lpc = "idle"
  /\ it = 0
  /\ k = 0
  /\ model = StaticModel
  /\ X = ZeroNodes
  /\ U = ZeroNodes
  /\ A_bar = ZeroIntervals
  /\ B_bar = ZeroIntervals
  /\ C_bar = ZeroIntervals
  /\ Sigma_bar = ZeroIntervals
  /\ z_bar = ZeroIntervals
  /\ sigma \in ConeVals
  /\ V = ZeroV
  /\ disc = NoDisc
  /\ nsteps = 0
  /\ j = 0
  /\ dVdt = ZeroV
  /\ \E s \in ConeVals, D \in ConeDeltas :
       sol = [ZeroPoint EXCEPT !.sigma = s, !.Delta_sigma = D]
  /\ status = "none"
  /\ params = NoParams
  /\ cone = FALSE
  /\ printed = NoOutput
  /\ linIt = [i \in Intervals |-> 0]
  /\ singular = {}
  /\ passes = 0
  /\ solves = 0

EvalCone ==
  /\ pc = "ConeProbe"
  /\ \E P \in {ReadParameters} :
       /\ params' = P
       /\ cone' = ConeHolds(TrustRegionCone(P), sol)
  /\ pc' = "ConeDone"
  /\ UNCHANGED <<lpc, it, k, model, X, U, sigma, A_bar, B_bar, C_bar, Sigma_bar,
                 z_bar, V, disc, nsteps, j, dVdt, sol, status, printed, linIt,
                 singular, passes, solves>>

NextCone == EvalCone

SpecCone == InitCone /\ [][NextCone]_vars

(* ---------------------------------------------------------------------- *)
(* Properties                                                             *)
(* ---------------------------------------------------------------------- *)
Failed == status \in {"infeasible", "numerical_error"}

\* C1: when solve_problem() reports infeasible or numerical error, the run
\* stops in that iteration: the returned values are neither adopted into
\* X, U, sigma nor printed, and no later iteration is started.
C1_FailedSolveStops ==
  [][ (pc = "Updating" /\ Failed) =>
        /\ X' = X
        /\ U' = U
        /\ sigma' = sigma
        /\ printed' = printed
        /\ pc' = "Terminated" ]_vars

\* C2: the solver is never invoked in an outer iteration in which the
\* integration of some interval inverted a singular Phi_A_xi.
C2_NoSolveOnSingularPhi ==
  pc = "Updating" => singular = {}

PhaseEdges ==
  { <<"Initializing", "Linearizing">>, <<"Linearizing", "Solving">>,
    <<"Solving", "Updating">>, <<"Updating", "Linearizing">>,
    <<"Updating", "Terminated">> }

PhaseCounts ==
  /\ pc = "Initializing" => it = 0 /\ passes = 0 /\ solves = 0
  /\ pc = "Linearizing"  => passes = it - 1 /\ solves = it - 1
  /\ pc = "Solving"      => passes = it /\ solves = it - 1
  /\ pc = "Updating"     => passes = it /\ solves = it
  /\ pc = "Terminated"   => passes = it - 1 /\ solves = it - 1

PhaseStep ==
  /\ pc' # pc => <<pc, pc'>> \in PhaseEdges
  /\ (pc = "Linearizing" /\ pc' = "Solving") => \A i \in Intervals : linIt'[i] = it
  /\ \A i \in Intervals : linIt'[i] # linIt[i] => linIt[i] < it /\ linIt'[i] = it
  /\ (X' # X \/ U' # U \/ sigma' # sigma) =>
        \/ pc = "Initializing"
        \/ pc = "Updating" /\ solves = it
  /\ (pc = "Updating" /\ pc' = "Linearizing") => it' = it + 1

\* C3: the phases follow Initializing -> Linearizing -> Solving -> Updating ->
\* (Linearizing | Terminated); Initializing is never re-entered, the solver is
\* invoked only once every interval has been linearized in this iteration,
\* the reference changes only after this iteration's solve has returned, and
\* each iteration linearizes each interval once and solves once.
C3_PhaseOrder ==
  [](PhaseCounts) /\ [][PhaseStep]_vars

W3_SecondIterationSolving ==
  pc = "Solving" /\ it = 2 /\ \A i \in Intervals : linIt[i] = 2

\* C4: every run reaches Terminated, after exactly `iterations` passes, each
\* with one linearization of every interval and one solver call, whatever
\* the solver returned.
C4_FixedIterationCount ==
  /\ <>(pc = "Terminated")
  /\ [](pc = "Terminated" =>
          /\ it = iterations + 1
          /\ passes = iterations
          /\ solves = iterations
          /\ printed.it = iterations
          /\ \A i \in Intervals : linIt[i] = iterations)

W4_Terminated ==
  pc = "Terminated" /\ solves = iterations

\* C5: outside the window between a solve and its read-out, the reference
\* X, U, sigma is exactly the candidate of the latest solve, and what was
\* printed last is that candidate; at Terminated that solve is the last one.
C5_UnconditionalAdoption ==
  /\ (solves >= 1 /\ pc # "Updating") =>
        /\ X = sol.X
        /\ U = sol.U
        /\ sigma = sol.sigma
        /\ printed = [it |-> solves, X |-> sol.X, U |-> sol.U, sigma |-> sol.sigma]
  /\ pc = "Terminated" => solves = iterations

W5_AdoptedNewReference ==
  pc = "Linearizing" /\ it = 2 /\ X = sol.X /\ X = Ramp /\ printed.it = 1

\* the affine model the integration of one interval yields when the stepper
\* takes n steps
RECURSIVE Integrate(_, _, _, _, _)
Integrate(m, o, v, s, n) ==
  IF s = n THEN v
  ELSE Integrate(m, o, StepV(v, ODE(m, o, v, TimeAt(s, n)), n), s + 1, n)

Discretize(m, x, u0, u1, sg, n) ==
  LET o == [u_t |-> u0, u_t1 |-> u1, sigma |-> sg, dt |-> dt]
      v == Integrate(m, o, InitV(x), 0, n)
  IN  [A |-> v[1], B |-> RMul(v[1], v[2]), C |-> RMul(v[1], v[3]),
       Sigma |-> RMul(v[1], v[4]), z |-> RMul(v[1], v[5])]

\* C6: every parameter the solver read in solve_problem() comes from the
\* reference of this iteration: each tuple was written in this iteration
\* from X[i], U[i], U[i+1] and sigma, and the cone coefficients are those
\* of sigma0 = sigma.
C6_ParametersAreCurrent ==
  pc = "Updating" =>
    /\ \A i \in Intervals :
         /\ linIt[i] = it
         /\ \E n \in 1 .. MaxSteps :
              LET d == Discretize(model, X[i], U[i], U[i + 1], sigma, n)
              IN  /\ params.A[i] = d.A
                  /\ params.B[i] = d.B
                  /\ params.C[i] = d.C
                  /\ params.Sigma[i] = d.Sigma
                  /\ params.z[i] = d.z
    /\ params.fn1 = RNeg(sigma)
    /\ params.fn2 = RAdd(Half, RMul(Half, RMul(sigma, sigma)))
    /\ params.fn3 = sigma
    /\ params.fn4 = RSub(Half, RMul(Half, RMul(sigma, sigma)))

W6_SolvedAfterReferenceChanged ==
  /\ pc = "Updating"
  /\ it = 2
  /\ sigma = R(2)
  /\ U = Ramp
  /\ \E i \in Intervals : params.B[i] # R(0) /\ Finite(params.B[i])

\* C7: the cone constraint of the time trust region holds at (sigma,
\* Delta_sigma) exactly when (sigma - sigma0)^2 <= Delta_sigma.
C7_ConeIsTrustRegion ==
  pc \in {"ConeDone", "Updating"} =>
    LET d == RSub(sol.sigma, sigma)
    IN  cone <=> RLeq(RMul(d, d), sol.Delta_sigma)

W7_ConeHoldsOffReference ==
  pc = "ConeDone" /\ cone /\ sol.sigma # sigma /\ sigma # R(0)

\* C8: at a point satisfying the dynamics equalities, for every interval
\* X[i+1] - (A X[i] + B U[i] + C U[i+1] + Sigma sigma + z) is the virtual
\* control nu[i].
C8_ResidualIsVirtualControl ==
  (pc = "Updating" /\ status = "success") =>
    \A i \in Intervals :
      RSub(sol.X[i + 1],
           RAdd(RAdd(RAdd(RAdd(RMul(A_bar[i], sol.X[i]),
                               RMul(B_bar[i], sol.U[i])),
                          RMul(C_bar[i], sol.U[i + 1])),
                     RMul(Sigma_bar[i], sol.sigma)),
                z_bar[i]))
        = sol.nu[i]

W8_NonzeroVirtualControl ==
  /\ pc = "Updating"
  /\ status = "success"
  /\ sol.U = Ramp
  /\ \E i \in Intervals : sol.nu[i] # R(0) /\ B_bar[i] # C_bar[i]

\* C9: for static dynamics every computed tuple is A = 1, B = C = Sigma =
\* z = 0, whatever the reference, sigma and the number of steps.
C9_StaticDynamics ==
  IsStatic(model) =>
    \A i \in Intervals :
      linIt[i] >= 1 =>
        /\ A_bar[i] = R(1)
        /\ B_bar[i] = R(0)
        /\ C_bar[i] = R(0)
        /\ Sigma_bar[i] = R(0)
        /\ z_bar[i] = R(0)

W9_StaticLinearized ==
  /\ IsStatic(model)
  /\ pc = "Solving"
  /\ it = 2
  /\ X = Ramp
  /\ U = Ramp
  /\ sigma = R(2)

\* C10: at every evaluation time t the column of dVdt that becomes B (the
\* coefficient of the start control U[k]) carries the weight 1 - t/dt of
\* u_t in the first-order hold, and the column that becomes C carries t/dt.
C10_HoldWeights ==
  (pc = "Linearizing" /\ lpc = "advance") =>
    LET t      == TimeAt(j, nsteps)
        w_end  == RDiv(t, dt)
        w_start == RSub(R(1), w_end)
        u      == RAdd(RMul(w_start, disc.u_t), RMul(w_end, disc.u_t1))
        g      == RMul(RDiv(R(1), V[1]),
                       RMul(disc.sigma, control_jacobian(model, V[0], u)))
    IN  /\ dVdt[2] = RMul(g, w_start)
        /\ dVdt[3] = RMul(g, w_end)

====
